---- MODULE Spec2Model ----
(***************************************************************************)
(* State-machine model of the HSM "peeling" toolpath planner of            *)
(* src/src/geometry.py (BasePocket / InsidePocket / OutsidePocket).        *)
(*                                                                         *)
(* Lengths and distances are integers in ticks; the planner's step is      *)
(* `step` ticks.  Angles are integers in half-segments of the polygon that *)
(* shapely's buffer() uses for a circle: a full turn is TwoPi = 2 * Segs.  *)
(* The geometry library and the medial-axis service are external: what     *)
(* they return (circle fragments, distances between paths, coverage        *)
(* tests) is drawn nondeterministically from bounded sets.                 *)
(***************************************************************************)
EXTENDS Integers, Sequences, FiniteSets, TLC

(***************************************************************************)
(* Bounds of the model.                                                    *)
(***************************************************************************)
\* Largest number of medial edges in a graph.
MaxEdges == 3
\* Largest number of circle fragments the geometry produces in one plan.
MaxArcs == 3
\* How far (ticks) a returned distance may lie outside [0, edge.length].
MaxDrift == 1
\* Number of segments of a full circle's boundary.
Segs == 4
\* Largest number of parts split() cuts a connector into.
MaxParts == 2
\* calls of calculate_path made on a constructed planner
MaxCalls == 1
\* edges of a graph walked by _join_branches on its own
MaxBranches == 3
\* entries of open_paths when _choose_next_path is called on its own
MaxOpen == 3

\* BasePocket.step (constructor argument), in ticks.
step == 20

\* Module constants of geometry.py.
ITERATION_COUNT == 50
BREADTH_FIRST == FALSE
\* The value of BREADTH_FIRST the module is run with.
VARIABLE breadth_first
CORNER_ZOOM == 2
CORNER_ZOOM_EFFECT == 1

None == 0
NoVertex == <<>>
NoArc == [type |-> "None"]
NoCircle == <<>>

Abs(x) == IF x < 0 THEN -x ELSE x
Max(a, b) == IF a > b THEN a ELSE b
Min(a, b) == IF a < b THEN a ELSE b

\* All orders in which a Python set can be iterated.
Perms(S) ==
    {f \in [1..Cardinality(S) -> S] : \A i, j \in 1..Cardinality(S) : f[i] = f[j] => i = j}

Reverse(s) == [i \in 1..Len(s) |-> s[Len(s) + 1 - i]]

(***************************************************************************)
(* The medial graph (VoronoiCenters): vertices are coordinate pairs, edges *)
(* are indexed line strings.  Graphs are the sub-graphs of a fixed pool    *)
(* with at most MaxEdges edges in which the start vertex has an edge; the   *)
(* graph of one long edge (longer than a step) is kept apart.              *)
(***************************************************************************)
VertexA == <<0, 0>>
VertexB == <<4, 0>>
VertexC == <<4, 3>>
VertexD == <<8, 0>>

EdgePool ==
    [e \in 1..5 |->
        CASE e = 1 -> [coords |-> <<VertexA, VertexB>>, length |-> 3]
          [] e = 2 -> [coords |-> <<VertexC, VertexB>>, length |-> 1]
          [] e = 3 -> [coords |-> <<VertexA, VertexC>>, length |-> 2]
          [] e = 4 -> [coords |-> <<VertexB, VertexD>>, length |-> 1]
          [] e = 5 -> [coords |-> <<VertexA, VertexD>>, length |-> 30]]

EndPoints(edge) == {edge.coords[1], edge.coords[Len(edge.coords)]}

MakeVoronoi(ids) ==
    LET verts == UNION {EndPoints(EdgePool[e]) : e \in ids}
    IN  [edges |-> [e \in ids |-> EdgePool[e]],
         vertex_to_edges |->
            [v \in verts |-> {e \in ids : v \in EndPoints(EdgePool[e])}],
         max_dist |-> 10]

Graphs ==
    {MakeVoronoi(ids) : ids \in
        {s \in SUBSET (1..4) : /\ Cardinality(s) <= MaxEdges
                              /\ \E e \in s : VertexA \in EndPoints(EdgePool[e])}}

LongGraphs == {MakeVoronoi({5})}

(***************************************************************************)
(* Geometry values.                                                        *)
(*   circle   <<section, distance>>: the circle proposed at `distance`     *)
(*            along the combined edge of outer-loop pass `section`;        *)
(*            <<0, 0>> is InsidePocket's starting circle.                  *)
(*   region   the set of cells an area reaches, so that the union of two   *)
(*            areas is the union of their cells: <<0, section>> the        *)
(*            corridor of a spine section (<<0, 0>>: the starting disc),   *)
(*            <<1, id>> the buffer of arc `id`, <<2, 0>> the outer box     *)
(*            minus the material, <<3, 0>> the buffered starting disc.     *)
(*   path     [s, m, dir, seg]: the poly-line on a circle that starts at   *)
(*            ring coordinate s and runs m segments of seg ticks each      *)
(*            in direction dir (1: clockwise, -1: counter-clockwise).      *)
(*   point    <<id, s>>: ring coordinate s of the circle of arc `id`;      *)
(*            <<-1, i>>: the i-th point where split() cut a connector;     *)
(*            <<-2, e>>: end e of a connector as shapely returns it when   *)
(*            it differs from the exact arc endpoint.                      *)
(***************************************************************************)
TwoPi == 2 * Segs

StartCircle == <<0, 0>>
Disc(circle) == <<0, circle[1]>>
ArcBuffer(arc) == <<1, arc.id>>
OuterMinusMaterial == <<2, 0>>
StartDiscBuffered == <<3, 0>>

PointOn(id, s) == <<id, s>>
SplitPoint(i) == <<-1, i>>
DriftPoint(e) == <<-2, e>>

\* len(path.coords): a degenerate line string repeats its only point.
NumCoords(p) == IF p.m = 0 THEN 2 ELSE p.m + 1
PathLength(p) == p.m * p.seg
FirstCoord(p) == p.s % Segs
LastCoord(p) == (p.s + p.dir * p.m) % Segs
ReversePath(p) == [p EXCEPT !.s = LastCoord(p), !.dir = -p.dir]

\* math.atan2(x - ox, y - oy) of ring position a (half-segments from +Y,
\* clockwise), a value in (-pi, pi].
Atan2(a) == IF (a % TwoPi) > Segs THEN (a % TwoPi) - TwoPi ELSE a % TwoPi

(***************************************************************************)
(* create_arc_from_path: a raw fragment.  origin is the spine section the  *)
(* circle's centre lies on; jitter tells whether the fragment lies within  *)
(* JITTER_FILTER of the pocket's boundary; id tells the fragments that     *)
(* pass _filter_arc apart (0 until then).                                  *)
(***************************************************************************)
create_arc_from_path(origin, p, jitter) ==
    [origin |-> origin, path |-> p, id |-> 0, jitter |-> jitter]

(***************************************************************************)
(* complete_arc(arc_data, winding_dir)                                     *)
(***************************************************************************)
NeedsReversed(ds, de, winding) ==
    \/ (ds > 0 /\ de > 0 /\ winding = "CCW")
    \/ (ds < 0 /\ de < 0 /\ winding = "CW")

SpanAngleZeroFix(span_angle) == IF span_angle = 0 THEN TwoPi ELSE span_angle

SpanAngle(start_angle, end_angle, winding) ==
    SpanAngleZeroFix(
        IF winding = "CW"
        THEN (end_angle - start_angle) % TwoPi
        ELSE -((start_angle - end_angle) % TwoPi))

complete_arc(arc_data, winding) ==
    IF PathLength(arc_data.path) = 0 THEN NoArc
    ELSE
    LET p == arc_data.path
        start_angle0 == Atan2(2 * FirstCoord(p))
        end_angle0 == Atan2(2 * LastCoord(p))
        \* path.interpolate(0.5, normalized=True): half way along the path.
        mid_angle == Atan2(2 * p.s + p.dir * p.m)
        ds == (start_angle0 - mid_angle) % TwoPi
        de == (mid_angle - end_angle0) % TwoPi
        rev == NeedsReversed(ds, de, winding)
        path2 == IF rev THEN ReversePath(p) ELSE p
        start_angle == IF rev THEN end_angle0 ELSE start_angle0
        end_angle == IF rev THEN start_angle0 ELSE end_angle0
    IN  [type |-> "Arc",
         origin |-> arc_data.origin,
         start |-> PointOn(arc_data.id, FirstCoord(path2)),
         end |-> PointOn(arc_data.id, LastCoord(path2)),
         start_angle |-> start_angle,
         span_angle |-> SpanAngle(start_angle, end_angle, winding),
         winding_dir |-> winding,
         path |-> path2,
         id |-> arc_data.id]

(***************************************************************************)
(* join_arcs(next_arc).  geom is what the geometry library answers:        *)
(*   inside   path.covered_by(polygon.buffer(step / 20))                   *)
(*   styles   one entry per part split() returns, TRUE when the part       *)
(*            intersects not_cut_path_area.buffer(-0.01)                   *)
(*   drift0, drift1  whether the first/last coordinate of the split line   *)
(*            differs from the arc endpoint it was built from.             *)
(***************************************************************************)
SplitParts(from, to, geom) ==
    LET k == Len(geom.styles)
        first == IF geom.drift0 THEN DriftPoint(0) ELSE from
        last == IF geom.drift1 THEN DriftPoint(1) ELSE to
    IN  [i \in 1..k |->
            [start |-> IF i = 1 THEN first ELSE SplitPoint(i - 1),
             end |-> IF i = k THEN last ELSE SplitPoint(i),
             intersects_uncut |-> geom.styles[i]]]

\* ClampLast without the clamp of lines 783-787.
KeepLast(lines, to) == lines

ClampLast(lines, to) == [lines EXCEPT ![Len(lines)].end = to]

ClampFirst(lines, from) == [lines EXCEPT ![1].start = from]

join_arcs(prev_arc, next_arc, geom) ==
    IF geom.inside
    THEN LET parts == SplitParts(prev_arc.end, next_arc.start, geom)
             lines == [i \in 1..Len(parts) |->
                          [type |-> "Line",
                           start |-> parts[i].start,
                           end |-> parts[i].end,
                           move_style |-> IF parts[i].intersects_uncut
                                          THEN "CUT" ELSE "RAPID_INSIDE"]]
         IN  ClampLast(ClampFirst(lines, prev_arc.end), next_arc.start)
    ELSE <<[type |-> "Line", start |-> prev_arc.end, end |-> next_arc.start,
            move_style |-> "RAPID_OUTSIDE"]>>

JoinGeoms(max_parts, drifts) ==
    {[inside |-> FALSE, styles |-> <<>>, drift0 |-> FALSE, drift1 |-> FALSE]}
    \cup
    {[inside |-> TRUE, styles |-> st, drift0 |-> d0, drift1 |-> d1] :
        st \in UNION {[1..k -> BOOLEAN] : k \in 1..max_parts},
        d0 \in drifts, d1 \in drifts}

(***************************************************************************)
(* BasePocket._filter_arc(arc)                                             *)
(***************************************************************************)
\* _filter_arc that keeps every arc.
KeepEveryArc(arc) == TRUE

_filter_arc(arc) ==
    /\ ~(NumCoords(arc.path) < 3)
    /\ ~(20 * PathLength(arc.path) <= step)
    \* Polygon(arc.path) contained in a dilated boundary ring.
    /\ ~arc.jitter

FilterArcs(arcs) == SelectSeq(arcs, _filter_arc)

(***************************************************************************)
(* BasePocket._arcs_to_path(arcs).  st = [path, last_arc, cut_area_total2, *)
(* raised] is the planner state it works on; geoms[i] is the geometry      *)
(* library's answer for the connector in front of arcs[i].                 *)
(***************************************************************************)
\* ResolveWinding that takes CW for every arc of a Closest plan.
ResolveFirstOnly(winding, prev_arc) ==
    IF winding = "Closest" THEN "CW" ELSE winding

ResolveWinding(winding, prev_arc) ==
    IF winding = "Closest"
    THEN IF prev_arc = NoArc THEN "CW"
         ELSE IF prev_arc.winding_dir = "CCW" THEN "CW" ELSE "CCW"
    ELSE winding

ArcAsserts(arc) ==
    /\ PathLength(arc.path) > 0
    /\ NumCoords(arc.path) > 2
    /\ arc.span_angle # 0

\* EmitArc without the connector of join_arcs.
EmitArcBare(st, arc, geom) ==
    [path |-> Append(st.path, arc),
     last_arc |-> arc,
     cut_area_total2 |-> st.cut_area_total2 \cup {ArcBuffer(arc)},
     raised |-> FALSE]

EmitArc(st, arc, geom) ==
    [path |-> (IF st.last_arc # NoArc
               THEN st.path \o join_arcs(st.last_arc, arc, geom)
               ELSE st.path) \o <<arc>>,
     last_arc |-> arc,
     cut_area_total2 |-> st.cut_area_total2 \cup {ArcBuffer(arc)},
     raised |-> FALSE]

RECURSIVE _arcs_to_path(_, _, _, _, _)
_arcs_to_path(arcs, geoms, i, winding, st) ==
    IF i > Len(arcs) \/ st.raised THEN st
    ELSE LET arc == complete_arc(arcs[i], ResolveWinding(winding, st.last_arc))
         IN  IF arc = NoArc
             THEN _arcs_to_path(arcs, geoms, i + 1, winding, st)
             ELSE IF ~ArcAsserts(arc)
             THEN [st EXCEPT !.raised = TRUE]
             ELSE _arcs_to_path(arcs, geoms, i + 1, winding, EmitArc(st, arc, geoms[i]))

(***************************************************************************)
(* BasePocket._queue_arcs(new_arcs).  d[q] is what                         *)
(* arc.path.distance(queue[-1].path) answers for pending queue q.  A       *)
(* result names the queues left pending and the queue handed to            *)
(* _arcs_to_path (<<>> when none is); chain_of records, for every arc, the *)
(* id of the first arc of the queue it was put in.                         *)
(***************************************************************************)
\* ClosestQueue that takes the youngest queue within step.
NearQueueLast(d, n, queue_index, closest_dist, closest_queue_index) ==
    LET near == {q \in 1..n : d[q] < step}
    IN  IF near = {} THEN None ELSE CHOOSE q \in near : \A r \in near : r <= q

RECURSIVE ClosestQueue(_, _, _, _, _)
ClosestQueue(d, n, queue_index, closest_dist, closest_queue_index) ==
    IF queue_index > n THEN closest_queue_index
    ELSE IF d[queue_index] < closest_dist
         THEN ClosestQueue(d, n, queue_index + 1, d[queue_index], queue_index)
         ELSE ClosestQueue(d, n, queue_index + 1, closest_dist, closest_queue_index)

\* PlaceArc that makes no new queue: an arc with no tail within step is
\* dropped.
PlaceNearOnly(st, arc, d) ==
    LET found == ClosestQueue(d, Len(st.queues), 1, step, None)
    IN  IF found = None THEN st
        ELSE [queues |-> [st.queues EXCEPT ![found] = Append(@, arc)],
              modified_queues |-> st.modified_queues \cup {found},
              chain_of |-> [st.chain_of EXCEPT ![arc.id] = st.queues[found][1].id]]

PlaceArc(st, arc, d) ==
    LET found == ClosestQueue(d, Len(st.queues), 1, step, None)
        closest_queue_index == IF found = None THEN Len(st.queues) + 1 ELSE found
    IN  [queues |-> IF found = None
                    THEN Append(st.queues, <<arc>>)
                    ELSE [st.queues EXCEPT ![found] = Append(@, arc)],
         modified_queues |-> st.modified_queues \cup {closest_queue_index},
         chain_of |-> [st.chain_of EXCEPT ![arc.id] =
                          IF found = None THEN arc.id ELSE st.queues[found][1].id]]

\* DrainHead without the test that the head queue was left alone.
DrainModified(st) ==
    IF st.modified_queues # {}
    THEN [queues |-> Tail(st.queues), to_process |-> Head(st.queues),
          chain_of |-> st.chain_of]
    ELSE [queues |-> st.queues, to_process |-> <<>>, chain_of |-> st.chain_of]

\* DrainHead taking the youngest queue instead of the oldest.
DrainTail(st) ==
    IF st.modified_queues # {} /\ 1 \notin st.modified_queues
    THEN [queues |-> SubSeq(st.queues, 1, Len(st.queues) - 1),
          to_process |-> st.queues[Len(st.queues)],
          chain_of |-> st.chain_of]
    ELSE [queues |-> st.queues, to_process |-> <<>>, chain_of |-> st.chain_of]

DrainHead(st) ==
    IF st.modified_queues # {} /\ 1 \notin st.modified_queues
    THEN [queues |-> Tail(st.queues), to_process |-> Head(st.queues),
          chain_of |-> st.chain_of]
    ELSE [queues |-> st.queues, to_process |-> <<>>, chain_of |-> st.chain_of]

\* The distances _queue_arcs can measure: touching, just within step, not
\* within step.
QueueDists == {0, step - 1, step}

\* The `for arc in new_arcs` loop, for every answer of path.distance().
RECURSIVE PlaceArcs(_, _, _)
PlaceArcs(new_arcs, i, st) ==
    IF i > Len(new_arcs) THEN {st}
    ELSE UNION {PlaceArcs(new_arcs, i + 1, PlaceArc(st, new_arcs[i], d)) :
                    d \in [1..Len(st.queues) -> QueueDists]}

_queue_arcs(queues, new_arcs, chains) ==
    IF Len(new_arcs) = 1 /\ Len(queues) = 1
    THEN {[queues |-> <<>>,
           to_process |-> Append(queues[1], new_arcs[1]),
           chain_of |-> [chains EXCEPT ![new_arcs[1].id] = queues[1][1].id]]}
    ELSE {DrainHead(st) : st \in PlaceArcs(new_arcs, 1,
            [queues |-> queues, modified_queues |-> {}, chain_of |-> chains])}

(***************************************************************************)
(* BasePocket._flush_arc_queues: every queue, head first.                  *)
(***************************************************************************)
\* _flush_arc_queues with `if` in place of `while`: the head queue only.
FlushHeadOnly(queues, to_process) ==
    IF queues = <<>>
    THEN [queues |-> queues, to_process |-> to_process]
    ELSE [queues |-> Tail(queues), to_process |-> to_process \o Head(queues)]

RECURSIVE _flush_arc_queues(_, _)
_flush_arc_queues(queues, to_process) ==
    IF queues = <<>>
    THEN [queues |-> queues, to_process |-> to_process]
    ELSE _flush_arc_queues(Tail(queues), to_process \o Head(queues))

(***************************************************************************)
(* BasePocket._join_branches: one pass of its `while True` loop.           *)
(* open_paths is a Python dict: a sequence of [edge, vertex] entries in    *)
(* insertion order with unique keys.                                       *)
(***************************************************************************)
OpenKeys(open) == {open[i].edge : i \in 1..Len(open)}

\* OpenSet that stores nothing.
OpenSkip(open, branch, vertex) == open

OpenSet(open, branch, vertex) ==
    IF branch \in OpenKeys(open)
    THEN [i \in 1..Len(open) |->
            IF open[i].edge = branch THEN [edge |-> branch, vertex |-> vertex]
            ELSE open[i]]
    ELSE Append(open, [edge |-> branch, vertex |-> vertex])

OpenPop(open, edge) == SelectSeq(open, LAMBDA en : en.edge # edge)

\* Unvisited without the test of line 674.
AlwaysUnvisited(branch, visited) == TRUE

Unvisited(branch, visited) == branch \notin visited

\* Whether `branch` of length `length` replaces the candidate found so far.
Preferred(length, longest) ==
    IF breadth_first THEN length < longest ELSE length > longest

\* The `for branch in branches` loop, over the iteration order `order`.
RECURSIVE ScanBranches(_, _, _, _, _, _)
ScanBranches(order, i, vor, visited, vertex, st) ==
    IF i > Len(order) THEN st
    ELSE LET branch == order[i]
             length == vor.edges[branch].length
         IN  IF Unvisited(branch, visited)
             THEN ScanBranches(order, i + 1, vor, visited, vertex,
                    [open |-> OpenSet(st.open, branch, vertex),
                     candidate |-> IF st.candidate = None THEN branch
                                   ELSE IF Preferred(length, st.longest) THEN branch
                                   ELSE st.candidate,
                     longest |-> Max(st.longest, length)])
             ELSE ScanBranches(order, i + 1, vor, visited, vertex, st)

\* line_coords after the candidate's coordinates are appended.
ExtendLine(line_coords, edge_coords, start) ==
    IF line_coords = <<>>
    THEN IF start # edge_coords[1] THEN Reverse(edge_coords) ELSE edge_coords
    ELSE IF line_coords[Len(line_coords)] = edge_coords[Len(edge_coords)]
         THEN line_coords \o Reverse(edge_coords)
         ELSE line_coords \o edge_coords

\* The two assertions of _join_branches, on the line before it is extended.
JoinAsserts(line_coords, edge_coords, start) ==
    line_coords # <<>> =>
        LET ec == IF line_coords[Len(line_coords)] = edge_coords[Len(edge_coords)]
                  THEN Reverse(edge_coords) ELSE edge_coords
        IN  line_coords[1] = start /\ line_coords[Len(line_coords)] = ec[1]

\* _colapse_dupe_points: <<>> stands for None.
RECURSIVE Dedup(_, _, _)
Dedup(coords, i, points) ==
    IF i > Len(coords) THEN points
    ELSE IF points # <<>> /\ points[Len(points)] = coords[i]
         THEN Dedup(coords, i + 1, points)
         ELSE Dedup(coords, i + 1, Append(points, coords[i]))

_colapse_dupe_points(coords) ==
    LET points == Dedup(coords, 1, <<>>)
    IN  IF Len(points) < 2 THEN <<>> ELSE points

(***************************************************************************)
(* BasePocket._choose_next_path(current_pos)                               *)
(***************************************************************************)
Cleanup(open, visited) == SelectSeq(open, LAMBDA en : en.edge \notin visited)

\* Point(vertex).distance(Point(current_pos)), squared: the code only
\* compares these distances with each other.
Distance2(v, w) == (v[1] - w[1]) * (v[1] - w[1]) + (v[2] - w[2]) * (v[2] - w[2])

\* ScanOpen that takes the first entry, whatever its distance.
ScanOpenFirst(open, i, current_pos, st) ==
    IF open = <<>> THEN st
    ELSE [shortest |-> 0, closest_vertex |-> open[1].vertex,
          closest_edge |-> open[1].edge]

\* The `for edge_i, vertex in self.open_paths.items()` loop.
RECURSIVE ScanOpen(_, _, _, _)
ScanOpen(open, i, current_pos, st) ==
    IF i > Len(open) THEN st
    ELSE LET d == IF current_pos # NoVertex
                  THEN Distance2(open[i].vertex, current_pos) ELSE 0
         IN  IF st.closest_vertex = NoVertex
             THEN IF current_pos = NoVertex
                  THEN [shortest |-> d, closest_vertex |-> open[i].vertex,
                        closest_edge |-> open[i].edge]
                  ELSE ScanOpen(open, i + 1, current_pos,
                        [shortest |-> d, closest_vertex |-> open[i].vertex,
                         closest_edge |-> open[i].edge])
             ELSE IF d < st.shortest
                  THEN ScanOpen(open, i + 1, current_pos,
                        [shortest |-> d, closest_vertex |-> open[i].vertex,
                         closest_edge |-> open[i].edge])
                  ELSE ScanOpen(open, i + 1, current_pos, st)

\* _choose_next_path whose cleanup works on a copy of open_paths.
ChooseNoCleanup(open, visited, vor, current_pos) ==
    LET found == ScanOpen(Cleanup(open, visited), 1, current_pos,
                    [shortest |-> (vor.max_dist + 1) * (vor.max_dist + 1),
                     closest_vertex |-> NoVertex, closest_edge |-> None])
    IN  [open_paths |-> IF found.closest_edge # None
                        THEN OpenPop(open, found.closest_edge) ELSE open,
         vertex |-> found.closest_vertex]

_choose_next_path(open, visited, vor, current_pos) ==
    LET cleaned == Cleanup(open, visited)
        found == ScanOpen(cleaned, 1, current_pos,
                    [shortest |-> (vor.max_dist + 1) * (vor.max_dist + 1),
                     closest_vertex |-> NoVertex, closest_edge |-> None])
    IN  [open_paths |-> IF found.closest_edge # None
                        THEN OpenPop(cleaned, found.closest_edge) ELSE cleaned,
         vertex |-> found.closest_vertex]

(***************************************************************************)
(* State.                                                                  *)
(***************************************************************************)
VARIABLES
    \* constructor arguments
    voronoi, mode, winding_dir, generate, timeslice,
    \* the pocket's shape, as far as it bounds what the geometry library
    \* answers: [wander, arcs, edges, profiles]
    geometry,
    \* BasePocket attributes
    start_point, visited_edges, open_paths, path, pending_arc_queues,
    path_len_progress, path_len_total, path_fail_count,
    last_arc, last_circle, cut_area_total, cut_area_total2,
    \* get_arcs: position and locals
    pc, start_vertex, combined_edge, dist, best_dist, stuck_count, yielded,
    \* _join_branches: locals
    vertex, line_coords, line_length,
    \* _calculate_arc: locals, and what the geometry answers during the call
    count, distance, progress, best_progress, best_distance, desired_step,
    color_overide, profile,
    \* history: edges appended by _join_branches, outer-loop passes, fitter
    \* calls of the current sweep, arcs returned by the fitter, queue of each
    \* arc, calls of calculate_path after the constructor's
    walked, passes, sweep_calls, arcs_made, chain_of, calls,
    \* _queue_arcs: argument new_arcs and locals (the position in `for arc in
    \* new_arcs`), and for each arc of the call the queue it went to and the
    \* distances arc.path.distance(queue[-1].path) to the queues' tails
    queue_new_arcs, modified_queues, arc_index, placed

fit_vars == <<count, distance, progress, best_progress, best_distance,
              desired_step, color_overide, profile>>
config_vars == <<voronoi, mode, winding_dir, generate, timeslice, geometry,
                 start_point, path_len_total, calls, breadth_first>>
walk_vars == <<visited_edges, open_paths, vertex, line_coords, line_length, walked>>
arc_vars == <<path, pending_arc_queues, last_arc, cut_area_total2, arcs_made, chain_of>>
sweep_vars == <<dist, best_dist, stuck_count, sweep_calls, path_len_progress,
                path_fail_count, cut_area_total>>

queue_vars == <<queue_new_arcs, modified_queues, arc_index, placed>>

vars == <<config_vars, queue_vars, walk_vars, arc_vars, sweep_vars, fit_vars,
          last_circle, pc, start_vertex, combined_edge, yielded, passes>>

NoEdge == [coords |-> <<>>, length |-> 0]
NoYield == <<>>
NoProfile == [name |-> "None"]

RECURSIVE SumLengths(_, _)
SumLengths(edges, ids) ==
    IF ids = {} THEN 0
    ELSE LET e == CHOOSE x \in ids : TRUE
         IN  edges[e].length + SumLengths(edges, ids \ {e})

\* The planners constructed: (pocket variant, winding, generate, timeslice
\* the consumer passes to get_arcs).
Configs ==
    {[mode |-> "inside", winding_dir |-> "CW", generate |-> FALSE, timeslice |-> 0],
     [mode |-> "inside", winding_dir |-> "Closest", generate |-> TRUE, timeslice |-> 20],
     [mode |-> "outside", winding_dir |-> "CCW", generate |-> TRUE, timeslice |-> 0]}

(***************************************************************************)
(* BasePocket._reset, InsidePocket._reset, OutsidePocket._reset            *)
(***************************************************************************)
_reset(vor, cfg) ==
    /\ voronoi = vor
    /\ mode = cfg.mode
    /\ winding_dir = cfg.winding_dir
    /\ generate = cfg.generate
    /\ timeslice = cfg.timeslice
    /\ path_fail_count = 0
    /\ visited_edges = {}
    /\ open_paths = <<>>
    /\ path = <<>>
    /\ pending_arc_queues = <<>>
    /\ path_len_progress = 0
    /\ path_len_total = SumLengths(vor.edges, DOMAIN vor.edges)
    /\ last_arc = NoArc
    /\ start_point = VertexA
    /\ last_circle = IF cfg.mode = "inside" THEN StartCircle ELSE NoCircle
    /\ cut_area_total = IF cfg.mode = "inside" THEN {Disc(StartCircle)}
                        ELSE {OuterMinusMaterial}
    /\ cut_area_total2 = IF cfg.mode = "inside" THEN {StartDiscBuffered}
                         ELSE {OuterMinusMaterial}

\* Pockets: one whose fitter calls return any distance and no fragment, and
\* a narrow one, of fewer edges, whose fitter calls each advance one tick and
\* return up to MaxArcs fragments in all.
Geometries ==
    {[wander |-> TRUE, arcs |-> 0, edges |-> MaxEdges, profiles |-> {}],
     [wander |-> FALSE, arcs |-> MaxArcs, edges |-> MaxEdges - 1, profiles |-> {}]}

\* No call of _calculate_arc is running.
FitIdle ==
    /\ count = 0
    /\ distance = 0
    /\ progress = 0
    /\ best_progress = 0
    /\ best_distance = 0
    /\ desired_step = 0
    /\ color_overide = "None"
    /\ profile = NoProfile

\* No call of _queue_arcs is running.
QueueIdle ==
    /\ queue_new_arcs = <<>>
    /\ modified_queues = {}
    /\ arc_index = 0
    /\ placed = <<>>

\* The locals of get_arcs and the history, before anything has run.
Idle ==
    /\ start_vertex = NoVertex
    /\ combined_edge = NoEdge
    /\ dist = 0
    /\ best_dist = 0
    /\ stuck_count = 0
    /\ yielded = NoYield
    /\ vertex = NoVertex
    /\ line_coords = <<>>
    /\ line_length = 0
    /\ walked = <<>>
    /\ passes = 0
    /\ sweep_calls = 0
    /\ arcs_made = 0
    /\ chain_of = [i \in 1..MaxArcs |-> 0]
    /\ calls = 0
    /\ FitIdle
    /\ QueueIdle

\* The module constants as geometry.py sets them.
AsBuilt == breadth_first = BREADTH_FIRST

\* The state get_arcs starts in.
Entry == pc = "start" /\ Idle

Init ==
    /\ geometry \in Geometries
    /\ \E vor \in Graphs, cfg \in Configs :
        /\ Cardinality(DOMAIN vor.edges) <= geometry.edges
        /\ _reset(vor, cfg)
    /\ AsBuilt
    /\ Entry

(***************************************************************************)
(* get_arcs: entry, up to the first call of _join_branches.                *)
(***************************************************************************)
EnterJoin(v) ==
    /\ start_vertex' = v
    /\ vertex' = v
    /\ line_coords' = <<>>
    /\ line_length' = 0
    /\ passes' = passes + 1
    /\ pc' = "join"

GetArcs ==
    /\ pc = "start"
    /\ EnterJoin(start_point)
    /\ UNCHANGED <<config_vars, queue_vars, visited_edges, open_paths, walked,
                   arc_vars,
                   sweep_vars, fit_vars, last_circle, combined_edge, yielded>>

(***************************************************************************)
(* _join_branches: one pass of the loop that finds a candidate.  pc        *)
(* "assert_join" is the AssertionError of lines 699-700.                   *)
(***************************************************************************)
NoCandidate == [open |-> open_paths, candidate |-> None, longest |-> 0]

Scans ==
    {ScanBranches(order, 1, voronoi, visited_edges, vertex, NoCandidate) :
        order \in Perms(voronoi.vertex_to_edges[vertex])}

MarkVisited(visited, candidate) == visited \cup {candidate}

JoinBranchesStep ==
    /\ pc = "join"
    /\ \E sc \in Scans :
        /\ sc.candidate # None
        /\ LET edge_coords == voronoi.edges[sc.candidate].coords
               new_coords == ExtendLine(line_coords, edge_coords, start_vertex)
           IN  /\ open_paths' = sc.open
               /\ visited_edges' = MarkVisited(visited_edges, sc.candidate)
               /\ walked' = Append(walked, sc.candidate)
               /\ line_coords' = new_coords
               /\ line_length' = line_length + voronoi.edges[sc.candidate].length
               /\ vertex' = new_coords[Len(new_coords)]
               /\ pc' = IF JoinAsserts(line_coords, edge_coords, start_vertex)
                        THEN "join" ELSE "assert_join"
    /\ UNCHANGED <<config_vars, queue_vars, arc_vars, sweep_vars, fit_vars,
                   last_circle,
                   start_vertex, combined_edge, yielded, passes>>

(***************************************************************************)
(* _join_branches returns; get_arcs up to the head of the inner loop.      *)
(***************************************************************************)
StuckBudget(length) == (length * 10) \div step + 10

JoinBranchesReturn ==
    /\ pc = "join"
    /\ \A sc \in Scans : sc.candidate = None
    /\ LET coords == _colapse_dupe_points(line_coords)
       IN  IF coords = <<>>
           THEN LET r == _choose_next_path(open_paths, visited_edges, voronoi, NoVertex)
                IN  /\ open_paths' = r.open_paths
                    /\ last_circle' = NoCircle
                    /\ IF r.vertex # NoVertex
                       THEN EnterJoin(r.vertex)
                       ELSE /\ pc' = "final"
                            /\ start_vertex' = NoVertex
                            /\ UNCHANGED <<vertex, line_coords, line_length, passes>>
                    /\ UNCHANGED <<combined_edge, dist, best_dist, stuck_count,
                                   sweep_calls>>
           ELSE /\ combined_edge' = [coords |-> coords, length |-> line_length]
                /\ dist' = 0
                /\ best_dist' = 0
                /\ stuck_count' = StuckBudget(line_length)
                /\ sweep_calls' = 0
                /\ pc' = "sweep"
                /\ UNCHANGED <<open_paths, last_circle, start_vertex, vertex,
                               line_coords, line_length, passes>>
    /\ UNCHANGED <<config_vars, queue_vars, visited_edges, walked, arc_vars,
                   path_len_progress,
                   path_fail_count, cut_area_total, yielded, fit_vars>>

(***************************************************************************)
(* get_arcs, lines 827-849: the inner loop's test, and what it does with   *)
(* the (dist, new_arcs) a call of _calculate_arc returned.  pc             *)
(* "assert_arc" is an AssertionError of lines 736-738.                     *)
(***************************************************************************)
InnerLoopCond ==
    20 * Abs(dist - combined_edge.length) > step /\ stuck_count > 0

\* SpendBudget without the decrement of line 830.
KeepBudget(stuck) == stuck

SpendBudget(stuck) == stuck - 1

\* best_dist after a fitter call (`if dist < best_dist and False: ... else:
\* best_dist = dist`).
NextBestDist(best, d) == d

\* min(0.999, path_len_progress / path_len_total) as a fraction.
ProgressRatio(progress_len, total) ==
    IF 1000 * progress_len > 999 * total THEN <<999, 1000>>
    ELSE <<progress_len, total>>

\* The connectors of a plan: split() returns the connector whole, with end
\* points that are not exactly the arcs' (JoinSpec takes every answer).
PlanGeoms == JoinGeoms(1, {TRUE})

ArcState == [path |-> path, last_arc |-> last_arc,
             cut_area_total2 |-> cut_area_total2, raised |-> FALSE]

\* The planner's arc state after _arcs_to_path(to_process).
SetArcState(st) ==
    /\ path' = st.path
    /\ last_arc' = st.last_arc
    /\ cut_area_total2' = st.cut_area_total2

AfterCalculateArc(returned, new_arcs) ==
    /\ dist' = returned
    /\ path_len_progress' = path_len_progress - best_dist + returned
    /\ best_dist' = NextBestDist(best_dist, returned)
    /\ arcs_made' = arcs_made + Len(new_arcs)
    /\ \E q \in _queue_arcs(pending_arc_queues, new_arcs, chain_of) :
        /\ pending_arc_queues' = q.queues
        /\ chain_of' = q.chain_of
        /\ \E geoms \in [1..Len(q.to_process) -> PlanGeoms] :
            LET st == _arcs_to_path(q.to_process, geoms, 1, winding_dir, ArcState)
            IN  /\ SetArcState(st)
                /\ IF st.raised
                   THEN pc' = "assert_arc" /\ yielded' = yielded
                   ELSE IF timeslice >= 0 /\ generate
                   THEN \E expired \in BOOLEAN :
                          IF expired
                          THEN /\ pc' = "yield"
                               /\ yielded' = ProgressRatio(path_len_progress',
                                                           path_len_total)
                          ELSE pc' = "sweep" /\ yielded' = yielded
                   ELSE pc' = "sweep" /\ yielded' = yielded

(***************************************************************************)
(* What one call _calculate_arc(voronoi_edge, start_distance,              *)
(* min_distance) hands back to get_arcs, by the return statement taken:    *)
(*   "drift"   line 621: (voronoi_edge.length, []), nothing recorded       *)
(*   "empty"   line 587: (distance, []), last_circle recorded              *)
(*   "fit"     line 655: (best_distance clamped to the edge, filtered      *)
(*             arcs), last_circle recorded, circle added to cut_area_total *)
(* frags are the pieces arcs_from_circle_diff returns for the final        *)
(* circle, before _filter_arc.  Here the call is one step; FitSpec takes   *)
(* the convergence loop one iteration at a time.                           *)
(***************************************************************************)
FragShapes ==
    {[path |-> [s |-> 0, m |-> Segs, dir |-> 1, seg |-> 5], jitter |-> FALSE],
     [path |-> [s |-> 1, m |-> 2, dir |-> 1, seg |-> 5], jitter |-> FALSE],
     [path |-> [s |-> 0, m |-> 1, dir |-> 1, seg |-> 5], jitter |-> FALSE]}

\* arcs_from_circle_diff returns at most two pieces while a plan runs.
FragLists(budget) == UNION {[1..k -> FragShapes] : k \in 0..Min(2, budget)}

FitDistances(voronoi_edge, start_distance, wander) ==
    IF wander THEN (-MaxDrift)..(voronoi_edge.length + MaxDrift)
    ELSE {Min(start_distance + 1, voronoi_edge.length)}

CalculateArcReturns(section, voronoi_edge, start_distance, min_distance, wander, budget) ==
    {[kind |-> "drift", distance |-> voronoi_edge.length, circle |-> NoCircle,
      frags |-> <<>>]}
    \cup
    {[kind |-> "empty", distance |-> d, circle |-> <<section, d>>, frags |-> <<>>] :
        d \in FitDistances(voronoi_edge, start_distance, wander)}
    \cup
    {[kind |-> "fit", distance |-> d, circle |-> <<section, d>>, frags |-> fr] :
        d \in {x \in FitDistances(voronoi_edge, start_distance, wander) :
                 x <= voronoi_edge.length},
        fr \in FragLists(budget)}

arcs_from_circle_diff(circle, frags) ==
    [i \in 1..Len(frags) |->
        create_arc_from_path(circle[1], frags[i].path, frags[i].jitter)]

\* The arcs _calculate_arc returns, numbered in the order it returns them.
FilteredArcs(circle, frags, made) ==
    LET kept == FilterArcs(arcs_from_circle_diff(circle, frags))
    IN  [i \in 1..Len(kept) |-> [kept[i] EXCEPT !.id = made + i]]

\* UnionCircle as an assignment of the circle alone.
ReplaceByCircle(area, circle) == {Disc(circle)}

\* self.cut_area_total.union(Polygon(circle.path))
UnionCircle(area, circle) == area \cup {Disc(circle)}

Sweep ==
    /\ pc = "sweep"
    /\ InnerLoopCond
    /\ stuck_count' = SpendBudget(stuck_count)
    /\ sweep_calls' = sweep_calls + 1
    /\ \E r \in CalculateArcReturns(passes, combined_edge, dist, best_dist,
                                    geometry.wander, geometry.arcs - arcs_made) :
        /\ last_circle' = IF r.kind = "drift" THEN last_circle ELSE r.circle
        /\ cut_area_total' = IF r.kind = "fit"
                             THEN UnionCircle(cut_area_total, r.circle)
                             ELSE cut_area_total
        /\ AfterCalculateArc(r.distance, FilteredArcs(r.circle, r.frags, arcs_made))
    /\ UNCHANGED <<config_vars, queue_vars, walk_vars, fit_vars,
                   path_fail_count, start_vertex,
                   combined_edge, passes>>

\* Resume that takes up the sweep of the combined edge from its start.
ResumeFromStart ==
    /\ pc = "yield"
    /\ pc' = "sweep"
    /\ dist' = 0
    /\ best_dist' = 0
    /\ UNCHANGED <<config_vars, queue_vars, walk_vars, arc_vars, stuck_count,
                   sweep_calls,
                   path_len_progress, path_fail_count, cut_area_total, fit_vars,
                   last_circle, start_vertex, combined_edge, yielded, passes>>

\* The consumer pulls the generator again: execution resumes after line 848.
Resume ==
    /\ pc = "yield"
    /\ pc' = "sweep"
    /\ UNCHANGED <<config_vars, queue_vars, walk_vars, arc_vars, sweep_vars,
                   fit_vars,
                   last_circle, start_vertex, combined_edge, yielded, passes>>

(***************************************************************************)
(* get_arcs: after the inner loop (lines 851-858).                         *)
(***************************************************************************)
SweepExit ==
    /\ pc = "sweep"
    /\ ~InnerLoopCond
    /\ path_fail_count' = IF stuck_count <= 0 THEN path_fail_count + 1
                          ELSE path_fail_count
    /\ LET r == _choose_next_path(open_paths, visited_edges, voronoi,
                    combined_edge.coords[Len(combined_edge.coords)])
           f == _flush_arc_queues(pending_arc_queues, <<>>)
       IN  /\ open_paths' = r.open_paths
           /\ last_circle' = NoCircle
           /\ pending_arc_queues' = f.queues
           /\ \E geoms \in [1..Len(f.to_process) -> PlanGeoms] :
                LET st == _arcs_to_path(f.to_process, geoms, 1, winding_dir, ArcState)
                IN  /\ SetArcState(st)
                    /\ IF st.raised
                       THEN /\ pc' = "assert_arc"
                            /\ UNCHANGED <<start_vertex, vertex, line_coords,
                                           line_length, passes>>
                       ELSE IF r.vertex # NoVertex
                       THEN EnterJoin(r.vertex)
                       ELSE /\ pc' = "final"
                            /\ start_vertex' = NoVertex
                            /\ UNCHANGED <<vertex, line_coords, line_length, passes>>
    /\ UNCHANGED <<config_vars, queue_vars, visited_edges, walked, arcs_made,
                   chain_of, dist,
                   best_dist, stuck_count, sweep_calls, path_len_progress,
                   cut_area_total, combined_edge, yielded, fit_vars>>

(***************************************************************************)
(* get_arcs: after the outer loop (lines 860-867).  pc "assert_open" is    *)
(* the AssertionError of line 863.                                         *)
(***************************************************************************)
FinalYield ==
    /\ pc = "final"
    /\ timeslice # 0 /\ generate
    /\ pc' = "yield_final"
    /\ yielded' = <<1, 1>>
    /\ UNCHANGED <<config_vars, queue_vars, walk_vars, arc_vars, sweep_vars,
                   fit_vars,
                   last_circle, start_vertex, combined_edge, passes>>

Finish ==
    /\ \/ pc = "final" /\ ~(timeslice # 0 /\ generate)
       \/ pc = "yield_final"
    /\ pc' = IF open_paths = <<>> THEN "done" ELSE "assert_open"
    /\ UNCHANGED <<config_vars, queue_vars, walk_vars, arc_vars, sweep_vars,
                   fit_vars,
                   last_circle, start_vertex, combined_edge, yielded, passes>>

Next ==
    \/ GetArcs
    \/ JoinBranchesStep
    \/ JoinBranchesReturn
    \/ Sweep
    \/ Resume
    \/ SweepExit
    \/ FinalYield
    \/ Finish

Spec == Init /\ [][Next]_vars

(***************************************************************************)
(* _calculate_arc, one iteration of its convergence loop at a time.        *)
(*                                                                         *)
(* A profile is what the pocket's geometry answers while one call runs,    *)
(* as a function of x = distance - start_distance:                         *)
(*   hidden   where arcs_from_circle_diff finds nothing of the proposed    *)
(*            circle outside cut_area_total: never, behind the start       *)
(*            (x < 0), ahead of the knee (x > knee), always                *)
(*   lo, hi   the spacing _furthest_spacing_* measures up to the knee and  *)
(*            beyond it, as an offset from min(step, voronoi_edge.length   *)
(*            - start_distance)                                            *)
(*   radius   the radius _arc_at_distance returns.                         *)
(* Every fragment of these pockets lies within JITTER_FILTER of the        *)
(* boundary.                                                               *)
(***************************************************************************)
Profiles ==
    {[name |-> "fits", hidden |-> "never", lo |-> 0, hi |-> 0, knee |-> 0,
      radius |-> 2 * step],
     [name |-> "overshoots", hidden |-> "never", lo |-> 0, hi |-> 20, knee |-> 10,
      radius |-> 2 * step],
     [name |-> "oscillates", hidden |-> "never", lo |-> -10, hi |-> 10, knee |-> 22,
      radius |-> 2 * step],
     [name |-> "far", hidden |-> "never", lo |-> 40, hi |-> 40, knee |-> 0,
      radius |-> 2 * step],
     [name |-> "far, cut behind", hidden |-> "behind", lo |-> 40, hi |-> 40,
      knee |-> 0, radius |-> 2 * step],
     [name |-> "wide, cut behind", hidden |-> "behind", lo |-> 10, hi |-> 10,
      knee |-> 0, radius |-> 2 * step],
     [name |-> "near, cut ahead", hidden |-> "ahead", lo |-> -10, hi |-> -10,
      knee |-> 22, radius |-> 2 * step],
     [name |-> "cut", hidden |-> "always", lo |-> 0, hi |-> 0, knee |-> 0,
      radius |-> 2 * step],
     [name |-> "corner", hidden |-> "never", lo |-> -10, hi |-> -10, knee |-> 0,
      radius |-> step]}

Hidden(p, x) ==
    CASE p.hidden = "never" -> FALSE
      [] p.hidden = "behind" -> x < 0
      [] p.hidden = "ahead" -> x > p.knee
      [] p.hidden = "always" -> TRUE

Spacing(p, x, target) == Max(0, target + (IF x <= p.knee THEN p.lo ELSE p.hi))

\* The pockets of FitSpec, by the profiles their calls meet.
ProfileClasses ==
    {{"fits", "overshoots", "near, cut ahead", "cut", "corner"},
     {"fits", "far, cut behind", "wide, cut behind"},
     {"fits", "far", "oscillates"}}

JitterFrag == [path |-> [s |-> 0, m |-> Segs, dir |-> 1, seg |-> 5], jitter |-> TRUE]

\* The fragments of the circle at x.
ProfileFrags(p, x) == IF Hidden(p, x) THEN <<>> ELSE <<JitterFrag>>

\* The quotient n / d, rounded towards zero to a whole tick.
RoundToZero(n, d) == IF n >= 0 THEN n \div d ELSE -((-n) \div d)

\* _converge(0.76): the modifier sent back for (target, current).
Converge(target, current) == RoundToZero(76 * (target - current), 100)

\* min(self.step, voronoi_edge.length - start_distance)
PlainStep(voronoi_edge, start_distance) ==
    Min(step, voronoi_edge.length - start_distance)

\* desired_step of one iteration (lines 596-600).
DesiredStep(voronoi_edge, start_distance, radius) ==
    LET corner_zoom == CORNER_ZOOM * step
    IN  IF radius < corner_zoom
        THEN step - (step * CORNER_ZOOM_EFFECT * (corner_zoom - radius)) \div corner_zoom
        ELSE PlainStep(voronoi_edge, start_distance)

BetterFit(desired, prog, best) == Abs(desired - prog) < Abs(desired - best)

GoodEnough(desired, prog) == 20 * Abs(desired - prog) < desired

\* The call's locals go out of scope.
FitLeave ==
    /\ count' = 0
    /\ distance' = 0
    /\ progress' = 0
    /\ best_progress' = 0
    /\ best_distance' = 0
    /\ desired_step' = 0
    /\ color_overide' = "None"
    /\ profile' = NoProfile

\* get_arcs lines 827-831 and _calculate_arc lines 521-549.
FitCall ==
    /\ pc = "sweep"
    /\ InnerLoopCond
    /\ stuck_count' = SpendBudget(stuck_count)
    /\ sweep_calls' = sweep_calls + 1
    /\ profile' \in {p \in Profiles : p.name \in geometry.profiles}
    /\ color_overide' = "None"
    /\ desired_step' = PlainStep(combined_edge, dist)
    /\ distance' = dist + desired_step'
    /\ count' = 0
    /\ progress' = 0
    /\ best_progress' = 0
    /\ best_distance' = 0
    /\ pc' = "fit"
    /\ UNCHANGED <<config_vars, queue_vars, walk_vars, arc_vars, dist,
                   best_dist,
                   path_len_progress, path_fail_count, cut_area_total, last_circle,
                   start_vertex, combined_edge, yielded, passes>>

\* FitEmpty that adds the circle to cut_area_total, as the return of line
\* 655 does.
FitEmptyRecorded ==
    /\ pc = "fit"
    /\ Hidden(profile, distance - dist)
    /\ ~(best_progress > 0)
    /\ last_circle' = <<passes, distance>>
    /\ cut_area_total' = UnionCircle(cut_area_total, <<passes, distance>>)
    /\ AfterCalculateArc(distance, <<>>)
    /\ FitLeave
    /\ UNCHANGED <<config_vars, queue_vars, walk_vars, stuck_count, sweep_calls,
                   path_fail_count, start_vertex, combined_edge, passes>>

\* Lines 575-587, nothing found and no progress made: return (distance, []).
FitEmpty ==
    /\ pc = "fit"
    /\ Hidden(profile, distance - dist)
    /\ ~(best_progress > 0)
    /\ last_circle' = <<passes, distance>>
    /\ AfterCalculateArc(distance, <<>>)
    /\ FitLeave
    /\ UNCHANGED <<config_vars, queue_vars, walk_vars, stuck_count, sweep_calls,
                   path_fail_count, cut_area_total, start_vertex, combined_edge,
                   passes>>

\* Lines 575-582, nothing found after some progress: leave the loop.
FitOrange ==
    /\ pc = "fit"
    /\ Hidden(profile, distance - dist)
    /\ best_progress > 0
    /\ count' = ITERATION_COUNT
    /\ color_overide' = "orange"
    /\ pc' = "fit_after"
    /\ UNCHANGED <<config_vars, queue_vars, walk_vars, arc_vars, sweep_vars,
                   last_circle,
                   start_vertex, combined_edge, yielded, passes, distance, progress,
                   best_progress, best_distance, desired_step, profile>>

\* Lines 564-614 when the proposed circle has fragments.
FitPropose ==
    /\ pc = "fit"
    /\ ~Hidden(profile, distance - dist)
    /\ LET prog == Spacing(profile, distance - dist, PlainStep(combined_edge, dist))
           desired == DesiredStep(combined_edge, dist, profile.radius)
           better == BetterFit(desired, prog, best_progress)
       IN  /\ count' = count + 1
           /\ progress' = prog
           /\ desired_step' = desired
           /\ best_progress' = IF better THEN prog ELSE best_progress
           /\ best_distance' = IF better THEN distance ELSE best_distance
           /\ IF better /\ GoodEnough(desired, prog)
              THEN distance' = distance /\ pc' = "fit_after"
              ELSE /\ distance' = distance + Converge(desired, prog)
                   /\ pc' = IF count' <= ITERATION_COUNT THEN "fit" ELSE "fit_after"
    /\ UNCHANGED <<config_vars, queue_vars, walk_vars, arc_vars, sweep_vars,
                   last_circle,
                   start_vertex, combined_edge, yielded, passes, color_overide,
                   profile>>

\* Lines 616-621: return (voronoi_edge.length, []).
FitDrift ==
    /\ pc = "fit_after"
    /\ count = ITERATION_COUNT
    /\ distance < best_dist
    /\ AfterCalculateArc(combined_edge.length, <<>>)
    /\ FitLeave
    /\ UNCHANGED <<config_vars, queue_vars, walk_vars, stuck_count, sweep_calls,
                   path_fail_count, cut_area_total, last_circle, start_vertex,
                   combined_edge, passes>>

\* best_distance after lines 623-624.
ClampDistance(best, voronoi_edge) ==
    IF best > voronoi_edge.length THEN voronoi_edge.length ELSE best

\* Lines 623-655: return (distance, filtered_arcs).
FitReturn ==
    /\ pc = "fit_after"
    /\ ~(count = ITERATION_COUNT /\ distance < best_dist)
    /\ LET best == ClampDistance(best_distance, combined_edge)
           rebuild == \/ distance # best
                      \/ progress # best_progress
                      \/ color_overide # "None"
                      \/ count = ITERATION_COUNT
           final == IF rebuild THEN best ELSE distance
           circle == <<passes, final>>
       IN  /\ last_circle' = circle
           /\ cut_area_total' = UnionCircle(cut_area_total, circle)
           /\ AfterCalculateArc(final,
                FilteredArcs(circle, ProfileFrags(profile, final - dist), arcs_made))
    /\ FitLeave
    /\ UNCHANGED <<config_vars, queue_vars, walk_vars, stuck_count, sweep_calls,
                   path_fail_count, start_vertex, combined_edge, passes>>

\* The pocket of one long edge.
FitInit ==
    /\ geometry \in {[wander |-> FALSE, arcs |-> 0, edges |-> 1, profiles |-> c] :
                        c \in ProfileClasses}
    /\ \E vor \in LongGraphs, cfg \in Configs : _reset(vor, cfg)
    /\ AsBuilt
    /\ Entry

FitNext ==
    \/ GetArcs
    \/ JoinBranchesStep
    \/ JoinBranchesReturn
    \/ FitCall
    \/ FitEmpty
    \/ FitOrange
    \/ FitPropose
    \/ FitDrift
    \/ FitReturn
    \/ Resume
    \/ SweepExit
    \/ FinalYield
    \/ Finish

FitSpec == FitInit /\ [][FitNext]_vars

(***************************************************************************)
(* _arcs_to_path and join_arcs on their own: arcs that passed _filter_arc  *)
(* are handed to _arcs_to_path one at a time, for every answer the         *)
(* geometry library can give for the connector.                            *)
(***************************************************************************)
JoinInit ==
    /\ geometry = [wander |-> FALSE, arcs |-> MaxArcs, edges |-> 1, profiles |-> {}]
    /\ \E vor \in Graphs, cfg \in Configs :
        /\ Cardinality(DOMAIN vor.edges) <= geometry.edges
        /\ _reset(vor, cfg)
    /\ pc = "emit"
    /\ AsBuilt
    /\ Idle

ArcsToPath ==
    /\ pc = "emit"
    /\ arcs_made < geometry.arcs
    /\ \E frag \in FragShapes, geom \in JoinGeoms(MaxParts, BOOLEAN) :
        LET arcs == FilteredArcs(<<1, 0>>, <<frag>>, arcs_made)
            st == _arcs_to_path(arcs, <<geom>>, 1, winding_dir, ArcState)
        IN  /\ arcs # <<>>
            /\ SetArcState(st)
            /\ arcs_made' = arcs_made + Len(arcs)
            /\ pc' = IF st.raised THEN "assert_arc" ELSE "emit"
    /\ UNCHANGED <<config_vars, queue_vars, walk_vars, sweep_vars, fit_vars,
                   pending_arc_queues,
                   chain_of, last_circle, start_vertex, combined_edge, yielded,
                   passes>>

JoinNext == ArcsToPath

JoinSpec == JoinInit /\ [][JoinNext]_vars

(***************************************************************************)
(* calculate_path() called on a constructed planner (lines 323-333).  It   *)
(* makes a generator with get_arcs(), timeslice 0.  In generator mode the  *)
(* generator is never started and is dropped when calculate_path returns;  *)
(* a generator the consumer holds stays where it is suspended.  Otherwise  *)
(* next(generator) runs it: the planner is then back at the entry of       *)
(* get_arcs, with the attributes the previous run left.                    *)
(***************************************************************************)
CalculatePath ==
    /\ calls < MaxCalls
    /\ calls' = calls + 1
    /\ IF generate
       THEN /\ pc \in {"start", "yield", "yield_final", "done"}
            /\ UNCHANGED <<voronoi, mode, winding_dir, generate, timeslice,
                           geometry, start_point, path_len_total, breadth_first,
                           queue_vars, walk_vars,
                           arc_vars, sweep_vars, fit_vars, last_circle, pc,
                           start_vertex, combined_edge, yielded, passes>>
       ELSE /\ pc = "done"
            /\ pc' = "start"
            /\ timeslice' = 0
            /\ start_vertex' = NoVertex
            /\ combined_edge' = NoEdge
            /\ dist' = 0
            /\ best_dist' = 0
            /\ stuck_count' = 0
            /\ yielded' = NoYield
            /\ vertex' = NoVertex
            /\ line_coords' = <<>>
            /\ line_length' = 0
            /\ passes' = 0
            /\ sweep_calls' = 0
            /\ UNCHANGED <<voronoi, mode, winding_dir, generate, geometry,
                           start_point, path_len_total, breadth_first,
                           queue_vars, visited_edges,
                           open_paths, walked, arc_vars, path_len_progress,
                           path_fail_count, cut_area_total, fit_vars,
                           last_circle>>

RecalcNext ==
    \/ Next
    \/ CalculatePath

RecalcSpec == Init /\ [][RecalcNext]_vars

(***************************************************************************)
(* _join_branches on its own, from the entry of get_arcs: graphs whose     *)
(* start vertex has up to three edges of different lengths, walked with    *)
(* either value of BREADTH_FIRST.                                          *)
(***************************************************************************)
BranchGraphs ==
    {MakeVoronoi(ids) : ids \in
        {s \in SUBSET (DOMAIN EdgePool) :
            /\ Cardinality(s) <= MaxBranches
            /\ \E e \in s : VertexA \in EndPoints(EdgePool[e])}}

BranchInit ==
    /\ geometry = [wander |-> TRUE, arcs |-> 0, edges |-> MaxBranches, profiles |-> {}]
    /\ \E vor \in BranchGraphs, cfg \in Configs : _reset(vor, cfg)
    /\ breadth_first \in BOOLEAN
    /\ Entry

BranchNext ==
    \/ GetArcs
    \/ JoinBranchesStep
    \/ JoinBranchesReturn

BranchSpec == BranchInit /\ [][BranchNext]_vars

(***************************************************************************)
(* _choose_next_path on its own, at its two call sites in get_arcs: after  *)
(* a sweep (line 856, current_pos the end of the combined edge) and after  *)
(* a _join_branches that found nothing (line 820, no current_pos).  The    *)
(* planner is part-way through a plan of the whole edge pool: any edges    *)
(* are visited and open_paths holds up to MaxOpen edges, each with one of  *)
(* its end points.                                                         *)
(***************************************************************************)
WholeGraph == MakeVoronoi(DOMAIN EdgePool)

\* The values open_paths can hold: the keys are different edges, the value
\* of a key is a vertex the edge leaves from.
OpenPaths ==
    UNION {{open \in [1..n -> [edge : DOMAIN EdgePool,
                               vertex : DOMAIN WholeGraph.vertex_to_edges]] :
                /\ \A i \in 1..n : open[i].vertex \in EndPoints(EdgePool[open[i].edge])
                /\ \A i, j \in 1..n : open[i].edge = open[j].edge => i = j} :
           n \in 0..MaxOpen}

ChooseInit ==
    /\ geometry = [wander |-> TRUE, arcs |-> 0, edges |-> Cardinality(DOMAIN EdgePool),
                   profiles |-> {}]
    /\ voronoi = WholeGraph
    /\ mode = "inside" /\ winding_dir = "CW" /\ generate = FALSE /\ timeslice = 0
    /\ AsBuilt
    /\ start_point = VertexA
    /\ path_len_total = SumLengths(voronoi.edges, DOMAIN voronoi.edges)
    /\ visited_edges \in SUBSET (DOMAIN EdgePool)
    /\ open_paths \in OpenPaths
    /\ path = <<>> /\ pending_arc_queues = <<>> /\ last_arc = NoArc
    /\ path_len_progress = 0 /\ path_fail_count = 0
    /\ last_circle = StartCircle
    /\ cut_area_total = {Disc(StartCircle)}
    /\ cut_area_total2 = {StartDiscBuffered}
    /\ yielded = NoYield /\ walked = <<>> /\ passes = 1 /\ sweep_calls = 0
    /\ arcs_made = 0 /\ chain_of = [i \in 1..MaxArcs |-> 0] /\ calls = 0
    /\ FitIdle
    /\ QueueIdle
    /\ line_coords = <<>> /\ line_length = 0
    /\ \/ \E e \in visited_edges, flip \in BOOLEAN :
            /\ pc = "sweep"
            /\ combined_edge = [coords |-> IF flip THEN Reverse(EdgePool[e].coords)
                                           ELSE EdgePool[e].coords,
                                length |-> EdgePool[e].length]
            /\ start_vertex = combined_edge.coords[1]
            /\ vertex = combined_edge.coords[2]
            /\ dist = combined_edge.length /\ best_dist = dist /\ stuck_count = 1
       \/ \E v \in DOMAIN voronoi.vertex_to_edges :
            /\ pc = "join"
            /\ combined_edge = NoEdge
            /\ start_vertex = v /\ vertex = v
            /\ dist = 0 /\ best_dist = 0 /\ stuck_count = 0

ChooseNext ==
    \/ SweepExit
    \/ JoinBranchesStep
    \/ JoinBranchesReturn

ChooseSpec == ChooseInit /\ [][ChooseNext]_vars

(***************************************************************************)
(* _queue_arcs on its own, one arc of `for arc in new_arcs` at a time:     *)
(* calls with the arcs a fitter call returns, up to MaxArcs in all, for    *)
(* every distance path.distance() can answer.  pc "emit" is between two    *)
(* calls, "queue" inside one.                                              *)
(***************************************************************************)
QueueInit ==
    /\ geometry = [wander |-> FALSE, arcs |-> MaxArcs, edges |-> 1, profiles |-> {}]
    /\ \E vor \in Graphs, cfg \in Configs :
        /\ Cardinality(DOMAIN vor.edges) <= geometry.edges
        /\ _reset(vor, cfg)
    /\ pc = "emit"
    /\ AsBuilt
    /\ Idle

QueueState == [queues |-> pending_arc_queues, modified_queues |-> modified_queues,
               chain_of |-> chain_of]

\* self._arcs_to_path(to_process)
DrainToPath(to_process) ==
    \E geoms \in [1..Len(to_process) -> PlanGeoms] :
        LET st == _arcs_to_path(to_process, geoms, 1, winding_dir, ArcState)
        IN  /\ SetArcState(st)
            /\ pc' = IF st.raised THEN "assert_arc" ELSE "emit"

\* Lines 885-898: the call is not the single-queue, single-arc one.
QueueArcsCall ==
    /\ pc = "emit"
    /\ \E frags \in FragLists(geometry.arcs - arcs_made) :
        LET arcs == FilteredArcs(<<1, 0>>, frags, arcs_made)
        IN  /\ ~(Len(arcs) = 1 /\ Len(pending_arc_queues) = 1)
            /\ queue_new_arcs' = arcs
            /\ arcs_made' = arcs_made + Len(arcs)
    /\ modified_queues' = {}
    /\ arc_index' = 1
    /\ placed' = <<>>
    /\ pc' = "queue"
    /\ UNCHANGED <<config_vars, walk_vars, sweep_vars, fit_vars, path,
                   pending_arc_queues, last_arc, cut_area_total2, chain_of,
                   last_circle, start_vertex, combined_edge, yielded, passes>>

\* Lines 899-920: one pass of `for arc in new_arcs`.
QueuePlace ==
    /\ pc = "queue"
    /\ arc_index <= Len(queue_new_arcs)
    /\ \E d \in [1..Len(pending_arc_queues) -> QueueDists] :
        LET st == PlaceArc(QueueState, queue_new_arcs[arc_index], d)
            queue_index == IF Len(st.queues) > Len(pending_arc_queues)
                           THEN Len(st.queues)
                           ELSE CHOOSE k \in 1..Len(st.queues) :
                                    st.queues[k] # pending_arc_queues[k]
        IN  /\ pending_arc_queues' = st.queues
            /\ modified_queues' = st.modified_queues
            /\ chain_of' = st.chain_of
            /\ placed' = Append(placed, [queue |-> queue_index, dist |-> d])
    /\ arc_index' = arc_index + 1
    /\ UNCHANGED <<config_vars, walk_vars, sweep_vars, fit_vars, path, last_arc,
                   cut_area_total2, arcs_made, queue_new_arcs, last_circle, pc,
                   start_vertex, combined_edge, yielded, passes>>

\* Lines 928-930, after the loop.
QueueDrain ==
    /\ pc = "queue"
    /\ arc_index > Len(queue_new_arcs)
    /\ LET st == DrainHead(QueueState)
       IN  /\ pending_arc_queues' = st.queues
           /\ DrainToPath(st.to_process)
    /\ UNCHANGED <<config_vars, queue_vars, walk_vars, sweep_vars, fit_vars,
                   arcs_made, chain_of, last_circle, start_vertex, combined_edge,
                   yielded, passes>>

\* Lines 889-899: one queue and one arc.  The arc goes to the queue without
\* a call of path.distance(); placed holds what it would have answered.
QueueFast ==
    /\ pc = "emit"
    /\ \E frags \in FragLists(geometry.arcs - arcs_made) :
        LET arcs == FilteredArcs(<<1, 0>>, frags, arcs_made)
        IN  /\ Len(arcs) = 1 /\ Len(pending_arc_queues) = 1
            /\ queue_new_arcs' = arcs
            /\ arcs_made' = arcs_made + Len(arcs)
            /\ \E q \in _queue_arcs(pending_arc_queues, arcs, chain_of) :
                /\ pending_arc_queues' = q.queues
                /\ chain_of' = q.chain_of
                /\ DrainToPath(q.to_process)
    /\ \E d \in [1..1 -> QueueDists] : placed' = <<[queue |-> 1, dist |-> d]>>
    /\ modified_queues' = {}
    /\ arc_index' = 0
    /\ UNCHANGED <<config_vars, walk_vars, sweep_vars, fit_vars, last_circle,
                   start_vertex, combined_edge, yielded, passes>>

QueueNext ==
    \/ QueueArcsCall
    \/ QueuePlace
    \/ QueueDrain
    \/ QueueFast

QueueSpec == QueueInit /\ [][QueueNext]_vars

(***************************************************************************)
(* Properties.                                                             *)
(***************************************************************************)
\* The positions of the Arcs in path.
ArcPositions == {k \in 1..Len(path) : path[k].type = "Arc"}

\* Medial edges not yet walked.
Unwalked == Cardinality(DOMAIN voronoi.edges) - Cardinality(visited_edges)

\* A measure of the work get_arcs has left: the edges still to walk, then
\* the position within the outer loop's pass, then the budget of the sweep.
RankSpan == 2 * StuckBudget(path_len_total) + 20

PhaseRank ==
    CASE pc = "start" -> RankSpan - 1
      [] pc = "join" /\ line_coords # <<>> -> RankSpan - 2
      [] pc = "yield" -> 2 * stuck_count + 11
      [] pc = "sweep" -> 2 * stuck_count + 10
      [] pc = "join" /\ line_coords = <<>> -> 5
      [] pc = "final" -> 3
      [] pc = "yield_final" -> 2
      [] pc = "done" -> 1
      [] OTHER -> 0

Rank == Unwalked * RankSpan + PhaseRank

SweepBounds ==
    /\ sweep_calls <= StuckBudget(combined_edge.length)
    /\ passes <= Cardinality(DOMAIN voronoi.edges) + 1

\* _join_branches returns in a pass after the first: it has walked an edge.
PassMarksEdge ==
    (/\ pc = "join"
     /\ passes >= 2
     /\ (pc' \notin {"join", "assert_join"} \/ passes' # passes))
    => line_coords # <<>>

\* C1: get_arcs terminates.  Every step of the driver lowers a measure that
\* is never negative; a combined edge is swept for at most
\* int(length * 10 / step + 10) fitter calls; every outer-loop pass after the
\* first walks at least one new edge; and the outer loop makes at most
\* |edges| + 1 passes.
C1_Terminates ==
    [][SweepBounds' /\ PassMarksEdge /\ Rank' < Rank /\ Rank' >= 0]_vars

\* A sweep of a later pass has used up its whole budget.
C1_Witness ==
    /\ pc = "sweep"
    /\ passes >= 2
    /\ stuck_count = 0
    /\ sweep_calls = StuckBudget(combined_edge.length)

\* C2: over the whole plan, from every start vertex, a medial edge is chosen
\* as candidate and appended to a combined edge at most once.
C2_EachEdgeOnce ==
    \A i, j \in 1..Len(walked) : walked[i] = walked[j] => i = j

\* A finished plan that walked MaxEdges edges in more than one pass.
C2_Witness ==
    pc = "done" /\ passes >= 2 /\ Len(walked) = MaxEdges

\* C3: when the outer loop has ended, open_paths is empty, so the assertion
\* of line 863 does not fail.
C3_OpenPathsEmpty ==
    /\ pc \in {"final", "yield_final", "done"} => open_paths = <<>>
    /\ pc # "assert_open"

\* A finished plan whose later passes started from vertices kept in
\* open_paths.
C3_Witness ==
    pc = "done" /\ passes >= 2 /\ Len(walked) >= 2 /\ open_paths = <<>>

\* C4: pending_arc_queues is empty when the plan ends and whenever a sweep
\* has been left (after _flush_arc_queues), so no queue is carried from one
\* combined edge to the next.
C4_QueuesFlushed ==
    pc \in {"join", "final", "yield_final", "done"} => pending_arc_queues = <<>>

\* Two queues were made in the first sweep, and their arcs are in path when
\* the second pass starts.
C4_Witness ==
    /\ pc = "join"
    /\ passes = 2
    /\ arcs_made >= 2
    /\ chain_of[2] = 2
    /\ Cardinality(ArcPositions) = arcs_made

\* C5: two arcs of the same queue are in path in the order the fitter
\* returned them, and the arcs of a queue made earlier are in path before
\* the arcs of a queue made later.
C5_EmissionOrder ==
    \A i, j \in ArcPositions :
        i < j =>
            LET a == path[i].id
                b == path[j].id
            IN  IF chain_of[a] = chain_of[b] THEN a < b
                ELSE chain_of[a] < chain_of[b]

\* An arc returned later is in path before an arc returned earlier.
C5_Witness ==
    \E i, j \in ArcPositions : i < j /\ path[i].id > path[j].id

C7_InsideNeverRapidOutside ==
    mode = "inside" =>
        \A k \in 1..Len(path) :
            path[k].type = "Line" => path[k].move_style # "RAPID_OUTSIDE"

\* C8: cut_area_total and cut_area_total2 only grow: after every step each
\* contains what it contained before.
C8_CutAreasGrow ==
    [][/\ cut_area_total \subseteq cut_area_total'
       /\ cut_area_total2 \subseteq cut_area_total2']_vars

\* Both areas have grown.
C8_Witness ==
    /\ Cardinality(cut_area_total) >= 2
    /\ Cardinality(cut_area_total2) >= 3

\* C9: a call of _calculate_arc returns a distance that is not below the
\* min_distance it was given.
C9_NeverBackwards ==
    [][(pc \in {"fit", "fit_after"} /\ pc' \in {"sweep", "yield"})
        => dist' >= best_dist]_vars

\* C10: the span_angle of every Arc in path is positive when its winding is
\* CW and negative when it is CCW.
C10_SpanSignMatchesWinding ==
    \A k \in ArcPositions :
        /\ path[k].winding_dir = "CW" => path[k].span_angle > 0
        /\ path[k].winding_dir = "CCW" => path[k].span_angle < 0

\* Whether the completed arc b has the path orientation, start, end,
\* start_angle and span_angle of the completed arc a.
SameArc(a, b) ==
    /\ b # NoArc
    /\ b.path = a.path
    /\ b.start = a.start
    /\ b.end = a.end
    /\ b.start_angle = a.start_angle
    /\ b.span_angle = a.span_angle

\* C11: complete_arc is idempotent for a fixed winding: completing again,
\* with the winding it was completed with, an Arc that complete_arc returned
\* gives the same path orientation, start, end, start_angle and span_angle.
C11_CompleteArcIdempotent ==
    \A k \in ArcPositions :
        SameArc(path[k], complete_arc(path[k], path[k].winding_dir))

\* The number of Arcs in path up to position k.
ArcRank(k) == Cardinality({n \in ArcPositions : n <= k})

\* C12: with winding Closest the first Arc put in path is CW and every later
\* Arc has the winding opposite to the Arc put in path just before it; no Arc
\* in path carries the winding Closest.
C12_ClosestAlternates ==
    winding_dir = "Closest" =>
        \A k \in ArcPositions :
            path[k].winding_dir = (IF ArcRank(k) % 2 = 1 THEN "CW" ELSE "CCW")

\* A Closest plan with MaxArcs arcs in path, from two queues and from two
\* sections of the spine.
C12_Witness ==
    /\ winding_dir = "Closest"
    /\ Cardinality(ArcPositions) = MaxArcs
    /\ \E i, j \in ArcPositions :
        /\ chain_of[path[i].id] # chain_of[path[j].id]
        /\ path[i].origin # path[j].origin

\* C13: in an InsidePocket plan the first Arc in path is the starting
\* circle: a full ring around start_point (the centre of the circle that
\* _reset takes as already cut).
C13_FirstArcIsStartCircle ==
    (mode = "inside" /\ ArcPositions # {}) =>
        LET first == path[CHOOSE k \in ArcPositions : \A n \in ArcPositions : k <= n]
        IN  /\ first.origin = StartCircle[1]
            /\ first.path.m = Segs

\* C14: at every yield of the generator path_len_progress is at most
\* path_len_total.
C14_ProgressBounded ==
    pc \in {"yield", "yield_final"} => path_len_progress <= path_len_total

\* C15: in generator mode, whatever the timeslice, the last value yielded
\* by a completed plan is 1.0, and path_len_progress equals path_len_total
\* at that yield.
C15_TerminalYield ==
    (generate /\ pc \in {"yield_final", "done"}) =>
        /\ yielded = <<1, 1>>
        /\ path_len_progress = path_len_total

\* C16: every value yielded before the terminal one is a ratio in the range
\* [0, 0.999].
C16_YieldInRange ==
    pc = "yield" =>
        /\ yielded[2] > 0
        /\ yielded[1] >= 0
        /\ 1000 * yielded[1] <= 999 * yielded[2]

\* The planner's state: everything but the generator's suspension (pc at a
\* yield), the value yielded, and the generate and timeslice settings.
PlannerVars ==
    <<walk_vars, arc_vars, sweep_vars, fit_vars, last_circle, start_vertex,
      combined_edge, passes>>

\* What a pass of the inner loop (lines 830-843) does to the planner's state
\* when get_arcs runs in one shot; nothing of it reads generate, timeslice,
\* the clock or the value yielded.
OneShotPass ==
    /\ InnerLoopCond
    /\ stuck_count' = SpendBudget(stuck_count)
    /\ sweep_calls' = sweep_calls + 1
    /\ \E r \in CalculateArcReturns(passes, combined_edge, dist, best_dist,
                                    geometry.wander, geometry.arcs - arcs_made) :
        /\ last_circle' = (IF r.kind = "drift" THEN last_circle ELSE r.circle)
        /\ cut_area_total' = (IF r.kind = "fit"
                              THEN UnionCircle(cut_area_total, r.circle)
                              ELSE cut_area_total)
        /\ dist' = r.distance
        /\ path_len_progress' = path_len_progress - best_dist + r.distance
        /\ best_dist' = NextBestDist(best_dist, r.distance)
        /\ arcs_made' = arcs_made + Len(FilteredArcs(r.circle, r.frags, arcs_made))
        /\ \E q \in _queue_arcs(pending_arc_queues,
                                FilteredArcs(r.circle, r.frags, arcs_made), chain_of) :
            /\ pending_arc_queues' = q.queues
            /\ chain_of' = q.chain_of
            /\ \E geoms \in [1..Len(q.to_process) -> PlanGeoms] :
                LET st == _arcs_to_path(q.to_process, geoms, 1, winding_dir, ArcState)
                IN  /\ ~st.raised
                    /\ path' = st.path
                    /\ last_arc' = st.last_arc
                    /\ cut_area_total2' = st.cut_area_total2
    /\ UNCHANGED <<walk_vars, fit_vars, path_fail_count, start_vertex,
                   combined_edge, passes>>

Fresh ==
    _reset(voronoi, [mode |-> mode, winding_dir |-> winding_dir,
                     generate |-> generate, timeslice |-> timeslice])

\* C18: calculate_path() scraps the path and the planner's state before it
\* regenerates the toolpath: when it has made its generator, the planner is
\* as _reset leaves it.
C18_CalculatePathResets ==
    [][calls' > calls => Fresh']_vars

\* C19: every Arc in path has a path of at least 3 vertices, longer than
\* step / 20, and a span_angle that is not zero; the assertions of
\* _arcs_to_path (lines 736-738) never fail.
C19_ArcsComplete ==
    /\ pc # "assert_arc"
    /\ \A k \in ArcPositions :
        /\ NumCoords(path[k].path) >= 3
        /\ 20 * PathLength(path[k].path) > step
        /\ path[k].span_angle # 0

\* path holds a closed ring, whose start and end angles are equal, and an
\* arc of 3 vertices.
C19_Witness ==
    /\ \E k \in ArcPositions : path[k].path.m = Segs
    /\ \E k \in ArcPositions : NumCoords(path[k].path) = 3

\* The edges of the current vertex that _join_branches has not visited.
UnvisitedBranches ==
    {b \in voronoi.vertex_to_edges[vertex] : b \notin visited_edges}

\* C20: the candidate _join_branches takes at a vertex is an unvisited edge
\* of minimum length when BREADTH_FIRST is true and one of maximum length
\* when it is false, whatever the iteration order of the edge set.
C20_CandidateByLength ==
    [][(pc = "join" /\ walked' # walked) =>
        LET candidate == walked'[Len(walked')]
            length(b) == voronoi.edges[b].length
        IN  /\ candidate \in UnvisitedBranches
            /\ \A b \in UnvisitedBranches :
                IF breadth_first THEN length(candidate) <= length(b)
                ELSE length(candidate) >= length(b)]_vars

\* A step of get_arcs that calls _choose_next_path.
ChooseStep ==
    \/ pc = "sweep" /\ pc' \in {"join", "final"}
    \/ pc = "join" /\ walked' = walked /\ pc' \in {"join", "final"}

\* The argument of that call, and what it returns.
ChooseArg ==
    IF pc = "sweep" THEN combined_edge.coords[Len(combined_edge.coords)]
    ELSE NoVertex

OpenUnvisited == {i \in 1..Len(open_paths) : open_paths[i].edge \notin visited_edges}

\* C21: _choose_next_path returns None exactly when open_paths holds no
\* unvisited edge; otherwise it returns the vertex stored for an unvisited
\* edge of open_paths that is nearest to current_pos (the first one when
\* there is no current_pos), removes that edge, and leaves in open_paths the
\* other unvisited edges and no visited one.
C21_ChooseNextPath ==
    [][ChooseStep =>
        IF OpenUnvisited = {}
        THEN pc' = "final" /\ open_paths' = <<>>
        ELSE /\ pc' = "join"
             /\ \E i \in OpenUnvisited :
                 /\ start_vertex' = open_paths[i].vertex
                 /\ IF ChooseArg = NoVertex
                    THEN \A j \in OpenUnvisited : i <= j
                    ELSE \A j \in OpenUnvisited :
                            Distance2(open_paths[i].vertex, ChooseArg)
                                <= Distance2(open_paths[j].vertex, ChooseArg)
                 /\ open_paths' = SelectSeq(open_paths, LAMBDA en :
                        en.edge \notin visited_edges /\ en.edge # open_paths[i].edge)]_vars

\* After a sweep a pass was started from the stored vertex nearest to the
\* end of the swept edge; a farther vertex stays in open_paths.
C21_Witness ==
    /\ pc = "join" /\ passes = 2 /\ line_coords = <<>>
    /\ Len(open_paths) = 1
    /\ open_paths[1].vertex # start_vertex
    /\ combined_edge # NoEdge
    /\ Distance2(start_vertex, combined_edge.coords[2])
         < Distance2(open_paths[1].vertex, combined_edge.coords[2])

\* C22: every distance _calculate_arc returns to get_arcs is at most the
\* length of the combined edge, on every return path.
C22_ReturnedDistanceClamped ==
    pc \in {"sweep", "yield"} => dist <= combined_edge.length

\* C23: one call of _calculate_arc proposes at most ITERATION_COUNT circles
\* in its convergence loop (count is the number of circles proposed so far).
C23_IterationsBounded == count <= ITERATION_COUNT

\* The convergence loop has ended because its condition, count <=
\* ITERATION_COUNT, is false, and its last proposal was not a good enough fit.
Exhausted ==
    /\ pc = "fit_after"
    /\ count > ITERATION_COUNT
    /\ ~GoodEnough(desired_step, progress)

\* C24: when the convergence loop has used up its iterations without a good
\* enough fit and the controller's distance is below min_distance, the call
\* returns (voronoi_edge.length, []): get_arcs receives the length of the
\* combined edge and no arc.
C24_BackwardsDrift ==
    [][(Exhausted /\ distance < best_dist) =>
        (dist' = combined_edge.length /\ arcs_made' = arcs_made)]_vars

\* C25: when the circle proposed by _calculate_arc has no part outside
\* cut_area_total and the call has recorded no progress, the call sets
\* last_circle to that circle and returns the current distance and no arc;
\* cut_area_total, cut_area_total2, pending_arc_queues and path stay as they
\* are.
C25_EmptyFragment ==
    [][(pc = "fit" /\ Hidden(profile, distance - dist) /\ best_progress <= 0) =>
        /\ last_circle' = <<passes, distance>>
        /\ dist' = distance
        /\ arcs_made' = arcs_made
        /\ UNCHANGED <<cut_area_total, cut_area_total2, pending_arc_queues, path>>]_vars

\* A call has returned at line 587: the circle it proposed is last_circle,
\* and the corridor of the combined edge is not part of cut_area_total.
C25_Witness ==
    /\ pc = "sweep"
    /\ dist > 0
    /\ last_circle = <<passes, dist>>
    /\ Disc(last_circle) \notin cut_area_total

\* C26: in every iteration of the fitter the desired step is at most
\* min(step, voronoi_edge.length - start_distance): the corner zoom only
\* shrinks it.
C26_CornerZoomShrinks ==
    pc \in {"fit", "fit_after"} => desired_step <= PlainStep(combined_edge, dist)

\* Steps of _queue_arcs: an arc is placed by the loop; the call takes the
\* single-queue, single-arc path; the call ends.
PlaceStep == pc = "queue" /\ arc_index' = arc_index + 1
FastStep == pc = "emit" /\ pc' # "queue" /\ arcs_made' # arcs_made
CallEnds == FastStep \/ (pc = "queue" /\ pc' # "queue")

\* The arc just placed went to the queue whose tail is nearest, if a tail is
\* within step, and to a new queue at the back otherwise.
NearestTail ==
    LET p == placed'[Len(placed')]
        n == Len(pending_arc_queues)
    IN  IF \E k \in 1..n : p.dist[k] < step
        THEN /\ p.queue \in 1..n
             /\ p.dist[p.queue] < step
             /\ \A k \in 1..n : p.dist[p.queue] <= p.dist[k]
        ELSE p.queue = n + 1

\* The queues after the arc was placed in queue p.queue.
ArcPlaced ==
    LET p == placed'[Len(placed')]
        arc == queue_new_arcs[arc_index]
    IN  pending_arc_queues' =
            IF p.queue <= Len(pending_arc_queues)
            THEN [pending_arc_queues EXCEPT ![p.queue] = Append(@, arc)]
            ELSE Append(pending_arc_queues, <<arc>>)

\* C27 as stated: in every call of _queue_arcs an arc appended to an
\* existing queue is less than step from that queue's tail and no other tail
\* is closer, and an arc that is not within step of any tail starts a new
\* queue at the back; whatever the number of queues and of new arcs.
C27_AppendsToNearestTail ==
    [][/\ PlaceStep => NearestTail /\ ArcPlaced
       /\ FastStep => NearestTail]_vars

\* C27 as the code has it: the rule holds for every arc placed by the loop
\* of lines 899-920; a call with one pending queue and one new arc appends
\* the arc to that queue whatever its distance from the tail.
C27_AppendsToNearestTailInLoop ==
    [][/\ PlaceStep => NearestTail /\ ArcPlaced
       /\ FastStep => placed'[1].queue = 1 /\ Len(pending_arc_queues) = 1]_vars

\* The loop has placed an arc in the older of two queues, whose tail was the
\* nearer, after an arc that started a queue of its own.
C27_Witness ==
    /\ Len(placed) >= 1
    /\ LET p == placed[Len(placed)]
       IN  /\ DOMAIN p.dist = 1..2
           /\ p.queue = 1
           /\ p.dist[1] < p.dist[2]
           /\ p.dist[2] < step
    /\ Len(pending_arc_queues) + Len(path) >= 2

\* The queues that received an arc in the call that ends.
Touched == {placed'[i].queue : i \in 1..Len(placed')}

HeadRemoved == pending_arc_queues # <<>> /\ pending_arc_queues' = Tail(pending_arc_queues)

\* C28 as stated: a call of _queue_arcs removes at most one queue, always the
\* head, and removes it exactly when some queue was modified in the call and
\* the head queue was not.
C28_DrainsStableHead ==
    [][/\ PlaceStep => Len(pending_arc_queues') >= Len(pending_arc_queues)
       /\ CallEnds =>
            IF Touched # {} /\ 1 \notin Touched
            THEN HeadRemoved
            ELSE Len(pending_arc_queues') = Len(pending_arc_queues)]_vars

\* C28 as the code has it: the head is also removed, with the new arc
\* appended to it, by a call with one pending queue and one new arc.
C28_DrainsStableHeadOrSingle ==
    [][/\ PlaceStep => Len(pending_arc_queues') >= Len(pending_arc_queues)
       /\ CallEnds =>
            IF FastStep \/ (Touched # {} /\ 1 \notin Touched)
            THEN HeadRemoved
            ELSE pending_arc_queues' = pending_arc_queues]_vars

\* A call that placed its arc in a younger queue has removed the head queue,
\* and another queue is still pending.
C28_Witness ==
    /\ pc = "emit"
    /\ placed # <<>>
    /\ \A i \in 1..Len(placed) : placed[i].queue > 1
    /\ pending_arc_queues # <<>>
    /\ path # <<>>

\* C29: when get_arcs leaves the sweep of a combined edge, path_fail_count
\* goes up by one if the sweep was abandoned with dist not within step / 20
\* of the edge's length, and stays as it is if the sweep reached the end of
\* the edge.
C29_FailCountsAbandonedSweeps ==
    [][(pc = "sweep" /\ pc' \in {"join", "final"}) =>
        path_fail_count' =
            IF 20 * Abs(dist - combined_edge.length) > step
            THEN path_fail_count + 1 ELSE path_fail_count]_vars

\* The vertices and edges of the medial graph that can be reached from the
\* start vertex.
RECURSIVE Reach(_)
Reach(vs) ==
    LET next == vs \cup UNION {EndPoints(voronoi.edges[e]) :
                    e \in {x \in DOMAIN voronoi.edges :
                             EndPoints(voronoi.edges[x]) \cap vs # {}}}
    IN  IF next = vs THEN vs ELSE Reach(next)

ReachableEdges ==
    {e \in DOMAIN voronoi.edges :
        EndPoints(voronoi.edges[e]) \cap Reach({start_point}) # {}}

\* The vertices the walker has stood on.
StoodOn == UNION {EndPoints(voronoi.edges[e]) : e \in visited_edges}

\* C30: when the plan ends every edge that can be reached from the start
\* vertex is in visited_edges; while a combined edge is swept, every
\* unvisited edge at a vertex the walker has stood on is a key of open_paths.
C30_ReachableEdgesVisited ==
    /\ pc \in {"final", "yield_final", "done"} => ReachableEdges \subseteq visited_edges
    /\ pc \in {"sweep", "yield"} =>
        \A v \in StoodOn : \A e \in voronoi.vertex_to_edges[v] :
            e \notin visited_edges => e \in OpenKeys(open_paths)

\* A finished plan on a graph with an edge that cannot be reached from the
\* start vertex: the edges visited are the ones that can.
C30_Witness ==
    /\ pc = "done"
    /\ ReachableEdges # DOMAIN voronoi.edges
    /\ visited_edges = ReachableEdges

\* How often the arc numbered id is in pending_arc_queues, and in path.
TimesQueued(id) ==
    Cardinality({<<q, i>> \in (1..Len(pending_arc_queues)) \X (1..MaxArcs) :
                    /\ i <= Len(pending_arc_queues[q])
                    /\ pending_arc_queues[q][i].id = id})

TimesInPath(id) == Cardinality({k \in ArcPositions : path[k].id = id})

\* C31: at every yield and when the plan has ended, each arc _calculate_arc
\* has returned is in one place only, once in a pending queue or once in
\* path; when the plan has ended it is in path.
C31_NoArcLostOrDuplicated ==
    /\ pc \in {"yield", "final", "yield_final", "done"} =>
        \A id \in 1..arcs_made : TimesQueued(id) + TimesInPath(id) = 1
    /\ pc \in {"final", "yield_final", "done"} =>
        \A id \in 1..arcs_made : TimesInPath(id) = 1

\* The generator is suspended with arcs in two pending queues and an arc in
\* path.
C31_Witness ==
    /\ pc = "yield"
    /\ Len(pending_arc_queues) >= 2
    /\ ArcPositions # {}
    /\ arcs_made = MaxArcs

\* C32: path is empty, or is Arc (Line+ Arc)*: it starts and ends with an
\* Arc and every later Arc comes straight after a Line; last_arc is the last
\* Arc of path, and None when path is empty.
C32_PathShape ==
    IF path = <<>> THEN last_arc = NoArc
    ELSE /\ path[1].type = "Arc"
         /\ path[Len(path)].type = "Arc"
         /\ last_arc = path[Len(path)]
         /\ \A k \in 2..Len(path) :
                /\ path[k].type \in {"Arc", "Line"}
                /\ path[k].type = "Arc" => path[k - 1].type = "Line"

\* path holds MaxArcs arcs, two of them joined by a connector of MaxParts
\* lines and two by a single line.
C32_Witness ==
    /\ Cardinality(ArcPositions) = MaxArcs
    /\ \E k \in ArcPositions :
        /\ k > MaxParts
        /\ \A n \in (k - MaxParts)..(k - 1) : path[n].type = "Line"
    /\ \E k \in ArcPositions : k > 2 /\ path[k - 2].type = "Arc"

====
